---- MODULE Spec2Model ----
(***************************************************************************)
(* The Tshirt rainfall-runoff model (src/src/models/tshirt/Tshirt.cpp) as  *)
(* a state machine: construction of a tshirt_model from parameters and an  *)
(* initial state, and the per-timestep run with its mass-balance check.    *)
(*                                                                         *)
(* Numbers.  A C++ double is modelled as an integer count of micrometres   *)
(* (1e-6 m), so the default mass_check_error_bound 0.000001 is 1.  Every   *)
(* storage is a multiple of Grid (the least common multiple of the         *)
(* timestep sizes) and every rate r produced in a step of size dt has      *)
(* r * dt a multiple of Grid, so the divisions by dt that run performs     *)
(* (excess / dt) are exact, like their floating-point originals up to      *)
(* rounding far below the error bound.                                     *)
(*                                                                         *)
(* Memory.  tshirt_state and tshirt_fluxes objects live in a heap indexed  *)
(* by object identity; previous_state, current_state and fluxes are        *)
(* shared_ptr values (identities, or NULL).  An object no shared_ptr       *)
(* refers to is released.                                                  *)
(*                                                                         *)
(* Further specifications add, to the same model, a caller setting the     *)
(* mass-check error bound (SpecBound), a second model built from the same  *)
(* initial-state object (SpecTwo) and a caller keeping a flux record       *)
(* (SpecFlux).  SpecBmi is the BMI test model's Initialize with its        *)
(* configuration file (src/extern/test_bmi_cpp/src/test_bmi_cpp.cpp).      *)
(***************************************************************************)
EXTENDS Integers, Sequences, FiniteSets, TLC

\* ------------------------------------------------------------------ bounds

\* Number of run calls explored after construction.
MaxRuns == 2

\* Largest Nash cascade size nash_n explored.
MaxNash == 2

\* ------------------------------------------------------ program constants

\* mass_check_error_bound = 0.000001 (metres), in micrometres.
DefaultErrorBound == 1

\* std::numeric_limits<double>::max(), the "no cap" outlet velocity.
DBL_MAX == 2147483647

\* TshirtErrorCodes.h result codes.
TSHIRT_NO_ERROR == "TSHIRT_NO_ERROR"
TSHIRT_MASS_BALANCE_ERROR == "TSHIRT_MASS_BALANCE_ERROR"

\* nullptr: no object has identity 0.
NULL == 0

\* -------------------------------------------------------------- arithmetic

Min(a, b) == IF a <= b THEN a ELSE b
Max(a, b) == IF a >= b THEN a ELSE b
Abs(a) == IF a >= 0 THEN a ELSE -a

RECURSIVE Gcd(_, _)
Gcd(a, b) == IF b = 0 THEN a ELSE Gcd(b, a % b)

\* Timestep sizes dt (seconds) passed to run.
TimeSteps == {1, 2}

RECURSIVE LcmOf(_)
LcmOf(S) ==
    IF S = {} THEN 1
    ELSE LET x == CHOOSE y \in S : TRUE
             r == LcmOf(S \ {x})
         IN  (x * r) \div Gcd(x, r)

\* Storages are multiples of Grid; see the header.
Grid == LcmOf(TimeSteps)

\* x rounded down to the storage grid.
ToGrid(x) == Grid * (x \div Grid)

RECURSIVE SumSeq(_)
SumSeq(s) == IF s = <<>> THEN 0 ELSE Head(s) + SumSeq(Tail(s))

\* A sequence of n copies of v.
Fill(n, v) == [i \in 1..n |-> v]

\* Op applied to the value of v, v evaluated once.
Bind(v, Op(_)) == CHOOSE r \in {Op(x) : x \in {v}} : TRUE

\* ----------------------------------------------------------- reservoir outlets

\* A coefficient is a rational num/den.
Coef(n, d) == [num |-> n, den |-> d]

\* Reservoir_Outlet(a, b, activation_threshold, max_velocity): the linear outlet.
Reservoir_Outlet(a, b, activation_threshold, max_velocity) ==
    [kind |-> "linear", a |-> a, b |-> b,
     activation_threshold |-> activation_threshold, max_velocity |-> max_velocity]

\* Reservoir_Exponential_Outlet(c, expon, activation_threshold, max_velocity).
Reservoir_Exponential_Outlet(c, expon, activation_threshold, max_velocity) ==
    [kind |-> "exponential", a |-> c, b |-> expon,
     activation_threshold |-> activation_threshold, max_velocity |-> max_velocity]

RECURSIVE IntPow(_, _)
IntPow(x, n) == IF n = 0 THEN 1 ELSE x * IntPow(x, n - 1)

\* The amount (rate * dt) a rate of num/den micrometres per second moves in dt
\* seconds, rounded down to the storage grid, as a rate again.
GridRate(num, den, dt) == ToGrid((num * dt) \div den) \div dt

\* Discharge of one outlet at storage S over a timestep dt.
\*   linear:      a * max(S - activation_threshold, 0) ^ b
\*   exponential: c * (exp(expon * S / S_max) - 1), the exponential taken to
\*                second order: exp(x) - 1 = x + x^2 / 2
\* both clamped to [0, max_velocity].
OutletVelocity(o, S, S_max, dt) ==
    LET raw ==
          IF o.kind = "linear"
          THEN GridRate(o.a.num * IntPow(Max(S - o.activation_threshold, 0), o.b),
                        o.a.den, dt)
          ELSE IF S_max = 0 THEN 0
          ELSE GridRate(o.a.num * (2 * o.b * S * S_max + o.b * o.b * S * S),
                        o.a.den * 2 * S_max * S_max, dt)
    IN  Max(0, Min(raw, o.max_velocity))

\* -------------------------------------------------------- nonlinear reservoir

\* Nonlinear_Reservoir(minimum, maximum, current storage, outlets).
Nonlinear_Reservoir(minimum_storage, maximum_storage, storage, outlets) ==
    [minimum_storage |-> minimum_storage, maximum_storage |-> maximum_storage,
     storage |-> storage, outlets |-> outlets,
     velocity |-> [i \in 1..Len(outlets) |-> 0]]

\* Nonlinear_Reservoir(minimum, maximum, current storage, a, b, activation
\* threshold, max velocity): the single-outlet reservoir.
Single_Outlet_Reservoir(minimum, maximum, storage, a, b, threshold, max_velocity) ==
    Nonlinear_Reservoir(minimum, maximum, storage,
                        <<Reservoir_Outlet(a, b, threshold, max_velocity)>>)

\* response_meters_per_second(in_flux, dt, excess): total discharge over the
\* outlets at the current storage; the storage advanced by
\* (in_flux - discharge) * dt and clamped to [0, maximum]; excess is what the
\* unclamped storage had above the maximum.  Yields the advanced reservoir,
\* the discharge and the excess.
response_meters_per_second(r, in_flux, dt) ==
    Bind([i \in 1..Len(r.outlets) |->
             OutletVelocity(r.outlets[i], r.storage, r.maximum_storage, dt)],
         LAMBDA vel :
            LET total == SumSeq(vel)
                unclamped == r.storage + (in_flux - total) * dt
            IN  [res |-> [r EXCEPT !.storage = Max(0, Min(unclamped, r.maximum_storage)),
                                   !.velocity = vel],
                 out |-> total,
                 excess |-> Max(unclamped - r.maximum_storage, 0)])

\* velocity_meters_per_second_for_outlet(i): the discharge of outlet i cached
\* by the last response.
velocity_meters_per_second_for_outlet(r, i) == r.velocity[i]

get_storage_height_meters(r) == r.storage

\* --------------------------------------------------------- Schaake partitioning

\* Schaake_partitioning_scheme(dt, Cschaake, deficit, input): infiltration is
\* the lesser of the input and the infiltration capacity, surface runoff the
\* remainder.  The capacity deficit * (1 - exp(-Cschaake * dt)) is taken with
\* the saturation function k / (1 + k) in place of 1 - exp(-k).
Schaake_partitioning_scheme(dt, Cschaake, deficit, input) ==
    IF input <= 0 THEN [surface_runoff |-> 0, infiltration |-> 0]
    ELSE IF deficit <= 0 THEN [surface_runoff |-> input, infiltration |-> 0]
    ELSE LET capacity == ToGrid((deficit * Cschaake.num * dt)
                                  \div (Cschaake.den + Cschaake.num * dt))
             inf == Min(input, capacity)
         IN  [surface_runoff |-> input - inf, infiltration |-> inf]

\* ------------------------------------------------------------ ET model (pdm03)

\* What pdm03_wrapper leaves in et_params->final_height_reservoir when it is
\* handed the height h: unchanged, lowered (evapotranspiration), or raised
\* (anomalous).
EtBehaviours == {"none", "lower", "raise"}

\* The height by which the ET model moves the reservoir height.
EtStep == 2 * Grid

pdm03_wrapper(behaviour, h) ==
    CASE behaviour = "none" -> h
      [] behaviour = "lower" -> Max(h - EtStep, 0)
      [] behaviour = "raise" -> h + EtStep

\* ------------------------------------------------------------- the model state

VARIABLES
    phase,                  \* "Unconstructed", "Ready", or "Crashed"
    model_params,           \* tshirt_params
    soil_field_capacity_storage,
    heap,                   \* live tshirt_state objects, by identity
    flux_heap,              \* live tshirt_fluxes objects, by identity
    initial_state,          \* the caller's shared_ptr to the initial state
    previous_state,         \* shared_ptr<tshirt_state>
    current_state,          \* shared_ptr<tshirt_state>
    fluxes,                 \* shared_ptr<tshirt_fluxes>
    mass_check_error_bound,
    soil_reservoir,
    groundwater_reservoir,
    soil_lf_nash_res,       \* the Nash cascade: a sequence of reservoirs
    runs,                   \* number of run calls made
    ctor,                   \* what construction did (observation)
    step,                   \* the locals and result of the last run (observation)
    last_set,               \* argument of the latest set_mass_check_error_bound
    held_fluxes,            \* a caller's copy of the shared_ptr get_fluxes gave
    other,                  \* a second tshirt_model built from the same state object
    bmi,                    \* the fields of a TestBmiCpp object
    bmi_call                \* the progress of TestBmiCpp::Initialize

vars == <<phase, model_params, soil_field_capacity_storage, heap, flux_heap,
          initial_state, previous_state, current_state, fluxes,
          mass_check_error_bound, soil_reservoir, groundwater_reservoir,
          soil_lf_nash_res, runs, ctor, step,
          last_set, held_fluxes, other, bmi, bmi_call>>

\* What lies around one tshirt_model: its callers and the BMI test model.
aux_vars == <<last_set, held_fluxes, other, bmi, bmi_call>>

\* The tshirt_model and its callers.
tshirt_vars == <<phase, model_params, soil_field_capacity_storage, heap,
                 flux_heap, initial_state, previous_state, current_state,
                 fluxes, mass_check_error_bound, soil_reservoir,
                 groundwater_reservoir, soil_lf_nash_res, runs, ctor, step,
                 last_set, held_fluxes, other>>

\* Outlet positions in the soil reservoir (1-based here, 0 and 1 in the code).
lf_outlet_index == 1
perc_outlet_index == 2

\* tshirt_state(soil, groundwater, cascade storages).
tshirt_state(soil, gw, nash) ==
    [soil_storage_meters |-> soil, groundwater_storage_meters |-> gw,
     nash_cascade_storeage_meters |-> nash]

\* A flux record left at the zeros it was allocated with.
tshirt_fluxes_unset(q_surf, q_gw, q_perc, q_lf, et_loss) ==
    [surface_runoff_meters_per_second |-> 0,
     groundwater_flow_meters_per_second |-> 0,
     soil_percolation_flow_meters_per_second |-> 0,
     soil_lateral_flow_meters_per_second |-> 0,
     et_loss_meters |-> 0]

\* tshirt_fluxes: the flux record of one timestep, with the values run
\* assigns to its fields.
tshirt_fluxes(q_surf, q_gw, q_perc, q_lf, et_loss) ==
    [surface_runoff_meters_per_second |-> q_surf,
     groundwater_flow_meters_per_second |-> q_gw,
     soil_percolation_flow_meters_per_second |-> q_perc,
     soil_lateral_flow_meters_per_second |-> q_lf,
     et_loss_meters |-> et_loss]

\* The model parameters explored: one soil/coefficient set per cascade size.
\* field_capacity is the value calc_soil_field_capacity_storage yields for the
\* set's Brooks-Corey parameters.
tshirt_params(n) ==
    [nash_n |-> n,
     max_soil_storage_meters |-> 4 * Grid,
     max_groundwater_storage_meters |-> 4 * Grid,
     Klf |-> Coef(1, 2), Kn |-> Coef(1, 4),
     Cgw |-> Coef(1, 2), expon |-> 2,
     satdk |-> Coef(1, 2), slope |-> Coef(1, 1),
     max_lateral_flow |-> 2 * Grid,
     Cschaake |-> Coef(1, 1),
     field_capacity |-> Grid]

ParamSets == {tshirt_params(n) : n \in 0..MaxNash}

\* Initial storages a caller may pass.
InitialSoil == {0, 4 * Grid}
InitialGroundwater == {0, 2 * Grid}
InitialNash == {Fill(k, v) : k \in 0..(MaxNash + 1), v \in {0, 4 * Grid}}

\* Values an out-of-bounds read of a vector<double> may yield.
GarbageValues == {0, 2 * Grid}

\* Inputs of run.
InputFluxes == {0 - Grid, 0, 2 * Grid, 6 * Grid}

\* calc_soil_field_capacity_storage(): a closed form in maxsmc, satpsi, b and
\* alpha_fc; its value is carried by the parameter set.
calc_soil_field_capacity_storage(p) == p.field_capacity

CoefMul(x, y) == Coef(x.num * y.num, x.den * y.den)

NoCtor == [error_reported |-> FALSE, default_ctor |-> FALSE,
           given_nash |-> <<>>, out_of_bounds |-> FALSE, indexed |-> {}]

NoStep == [dt |-> 0, input_flux_meters |-> 0, et |-> "none",
           surface_runoff |-> 0, subsurface_infiltration_flux |-> 0,
           subsurface_excess |-> 0, Qlf |-> 0, Qperc |-> 0,
           soil_storage_before |-> 0, new_soil_storage |-> 0,
           final_height_reservoir |-> 0,
           stage_order |-> <<>>, stage_in |-> <<>>, stage_out |-> <<>>,
           stage_excess |-> <<>>, stage_storage |-> <<>>,
           excess_gw_water |-> 0, indexed |-> {}, out_of_bounds |-> FALSE,
           garbage |-> <<>>,
           old_current |-> NULL, old_current_value |-> tshirt_state(0, 0, <<>>),
           previous_mass_meters |-> 0, current_mass_meters |-> 0,
           result |-> TSHIRT_NO_ERROR, prior_result |-> TSHIRT_NO_ERROR]

\* No second model has been built.
NoOther == [constructed |-> FALSE, nash_n |-> 0, error_reported |-> FALSE,
            previous_state |-> NULL, current_state |-> NULL]

\* -------------------------------------------- the BMI test model's configuration

\* Number of lines of a configuration file.
MaxLines == 3

\* The keys read_init_config knows.
ConfigKeys ==
    {"epoch_start_time", "num_time_steps", "time_step_size", "model_end_time"}

\* Values as they stand in a file: decimal text.
ConfigTexts == {<<"0">>, <<"1", "2">>, <<"-", "3">>}

ConfigLines == [key : ConfigKeys, value : ConfigTexts]
ConfigFiles == UNION {[1..n -> ConfigLines] : n \in 0..MaxLines}

Digit ==
    ("0" :> 0) @@ ("1" :> 1) @@ ("2" :> 2) @@ ("3" :> 3) @@ ("4" :> 4)
    @@ ("5" :> 5) @@ ("6" :> 6) @@ ("7" :> 7) @@ ("8" :> 8) @@ ("9" :> 9)

RECURSIVE strtol_digits(_, _)
strtol_digits(text, acc) ==
    IF text = <<>> \/ Head(text) \notin DOMAIN Digit THEN acc
    ELSE strtol_digits(Tail(text), acc * 10 + Digit[Head(text)])

\* strtol(param_value, NULL, 10): an optional sign, then the leading digits.
strtol(text) ==
    IF text /= <<>> /\ Head(text) = "-" THEN 0 - strtol_digits(Tail(text), 0)
    ELSE IF text /= <<>> /\ Head(text) = "+" THEN strtol_digits(Tail(text), 0)
    ELSE strtol_digits(text, 0)

\* time_step_size and DEFAULT_TIME_STEP_COUNT get their values in
\* test_bmi_cpp.hpp; the values considered for them.
HeaderTimeStepSizes == {1, 3600}
HeaderDefaultTimeStepCounts == {24}

\* GetStartTime(): 0.0.
GetStartTime == 0

\* A TestBmiCpp object before Initialize: num_time_steps and model_end_time
\* are 0 as initialized.
TestBmiCpp(size, count) ==
    [epoch_start_time |-> 0, num_time_steps |-> 0, time_step_size |-> size,
     model_end_time |-> 0, current_model_time |-> 0,
     DEFAULT_TIME_STEP_COUNT |-> count]

\* Initialize has not been called; `file` is the configuration file's lines.
NoCall(file) ==
    [pc |-> "idle", file |-> file, i |-> 0,
     is_epoch_start_time_set |-> FALSE, failed_assert |-> 0]

\* The state around one tshirt_model that no caller has touched.
AuxInit ==
    /\ last_set = <<>>
    /\ held_fluxes = NULL
    /\ other = NoOther

\* No BMI test model is in play.
BmiIdle ==
    /\ bmi = TestBmiCpp(1, 24)
    /\ bmi_call = NoCall(<<>>)

\* The tshirt_model before its constructor has run.
ModelInit ==
    /\ phase = "Unconstructed"
    /\ model_params \in ParamSets
    /\ soil_field_capacity_storage = 0
    /\ heap = <<>>
    /\ flux_heap = <<>>
    /\ initial_state = NULL
    /\ previous_state = NULL
    /\ current_state = NULL
    /\ fluxes = NULL
    /\ mass_check_error_bound = 0
    /\ soil_reservoir = Nonlinear_Reservoir(0, 0, 0, <<>>)
    /\ groundwater_reservoir = Nonlinear_Reservoir(0, 0, 0, <<>>)
    /\ soil_lf_nash_res = <<>>
    /\ runs = 0
    /\ ctor = NoCtor
    /\ step = NoStep

Init ==
    /\ AuxInit
    /\ BmiIdle
    /\ ModelInit

\* ----------------------------------------------------------------- construction

\* check_valid() without the resize of an empty vector.
check_valid_no_resize(h, cur, p) ==
    [heap |-> h,
     error_reported |-> Len(h[cur].nash_cascade_storeage_meters) /= p.nash_n]

\* check_valid(): when the cascade vector of the state current_state points to
\* has a size other than nash_n, an empty vector with nash_n > 0 is resized to
\* nash_n zeros; any other mismatch is reported on cerr and construction goes
\* on.  Yields the heap and whether the error was reported.
check_valid(h, cur, p) ==
    LET size == Len(h[cur].nash_cascade_storeage_meters)
    IN  IF size /= p.nash_n
        THEN IF p.nash_n > 0 /\ size = 0
             THEN [heap |-> [h EXCEPT ![cur].nash_cascade_storeage_meters =
                                          Fill(p.nash_n, 0)],
                   error_reported |-> FALSE]
             ELSE [heap |-> h, error_reported |-> TRUE]
        ELSE [heap |-> h, error_reported |-> FALSE]

\* initialize_subsurface_lateral_flow_nash_cascade(): nash_n single-outlet
\* reservoirs, reservoir i starting from previous_state's cascade entry i.
\* An entry past the end of that vector is an out-of-bounds read: it yields
\* the value garbage[i].
initialize_subsurface_lateral_flow_nash_cascade(p, prev_nash, garbage) ==
    [i \in 1..p.nash_n |->
        Single_Outlet_Reservoir(0, p.max_soil_storage_meters,
                                IF i <= Len(prev_nash) THEN prev_nash[i] ELSE garbage[i],
                                p.Kn, 1, 0, p.max_lateral_flow)]

\* initialize_soil_reservoir(): the lateral-flow and the percolation outlet,
\* both activated at the field capacity; storage from previous_state.
initialize_soil_reservoir(p, Sfc, prev) ==
    Nonlinear_Reservoir(0, p.max_soil_storage_meters, prev.soil_storage_meters,
        [i \in {lf_outlet_index, perc_outlet_index} |->
            IF i = lf_outlet_index
            THEN Reservoir_Outlet(p.Klf, 1, Sfc, p.max_lateral_flow)
            ELSE Reservoir_Outlet(CoefMul(p.satdk, p.slope), 1, Sfc, DBL_MAX)])

\* initialize_groundwater_reservoir(): one exponential outlet, uncapped.
initialize_groundwater_reservoir(p, prev) ==
    Nonlinear_Reservoir(0, p.max_groundwater_storage_meters,
                        prev.groundwater_storage_meters,
                        <<Reservoir_Exponential_Outlet(p.Cgw, p.expon, 0, DBL_MAX)>>)

\* tshirt_model(model_params, initial_state): previous_state and current_state
\* both refer to the caller's object.  `held` says whether the caller keeps
\* its shared_ptr (the parameters-only constructor owns a temporary).
tshirt_model(init, held, dflt) ==
    LET p == model_params
        Sfc == calc_soil_field_capacity_storage(p)
        cv == check_valid((1 :> init), 1, p)
        prev == cv.heap[1]
        size == Len(prev.nash_cascade_storeage_meters)
        oob == size < p.nash_n
        seen == [error_reported |-> cv.error_reported, default_ctor |-> dflt,
                 given_nash |-> init.nash_cascade_storeage_meters,
                 out_of_bounds |-> oob, indexed |-> 1..p.nash_n]
    IN  /\ phase = "Unconstructed"
        /\ ctor' = seen
        /\ UNCHANGED aux_vars
        /\ \/ \E garbage \in [(size + 1)..p.nash_n -> GarbageValues] :
                /\ phase' = "Ready"
                /\ soil_field_capacity_storage' = Sfc
                /\ heap' = cv.heap
                /\ initial_state' = IF held THEN 1 ELSE NULL
                /\ previous_state' = 1
                /\ current_state' = 1
                /\ soil_lf_nash_res' =
                       initialize_subsurface_lateral_flow_nash_cascade(
                           p, prev.nash_cascade_storeage_meters, garbage)
                /\ soil_reservoir' = initialize_soil_reservoir(p, Sfc, prev)
                /\ groundwater_reservoir' = initialize_groundwater_reservoir(p, prev)
                /\ fluxes' = NULL
                /\ mass_check_error_bound' = DefaultErrorBound
                /\ UNCHANGED <<model_params, flux_heap, runs, step>>
           \/ \* the out-of-bounds read faults
              /\ oob
              /\ phase' = "Crashed"
              /\ UNCHANGED <<model_params, soil_field_capacity_storage, heap,
                             flux_heap, initial_state, previous_state,
                             current_state, fluxes, mass_check_error_bound,
                             soil_reservoir, groundwater_reservoir,
                             soil_lf_nash_res, runs, step>>

\* Construction from parameters and a caller-supplied initial state.
Construct ==
    \E soil \in InitialSoil, gw \in InitialGroundwater, nash \in InitialNash :
        tshirt_model(tshirt_state(soil, gw, nash), TRUE, FALSE)

\* tshirt_model(model_params): construction from a default state
\* tshirt_state(0.0, 0.0).
ConstructDefault ==
    tshirt_model(tshirt_state(0, 0, <<>>), FALSE, TRUE)

\* --------------------------------------------------------------------- one run

\* calc_evapotranspiration(soil_m, et_params): hands soil_m to the ET model
\* and returns final_height_reservoir - soil_m.
calc_evapotranspiration(soil_m, final_height_reservoir) ==
    final_height_reservoir - soil_m

\* A fresh state whose cascade vector is not sized to nash_n.
fresh_state_unsized(p) == tshirt_state(0, 0, <<>>)

\* The state run installs as current_state:
\* tshirt_state(0.0, 0.0, vector<double>(nash_n)).
fresh_state(p) == tshirt_state(0, 0, Fill(p.nash_n, 0))

\* A cascade stage that drops its excess instead of passing it on.
nash_stage_no_excess(r, Qlf, dt) ==
    Bind(response_meters_per_second(r, Qlf, dt),
         LAMBDA resp :
            [res |-> resp.res, out |-> resp.out, excess |-> resp.excess,
             Qlf |-> resp.out])

\* One pass of the cascade loop body: reservoir r answers the discharge Qlf;
\* its excess, as a rate, is added to what is passed on.
nash_stage(r, Qlf, dt) ==
    Bind(response_meters_per_second(r, Qlf, dt),
         LAMBDA resp :
            [res |-> resp.res, out |-> resp.out, excess |-> resp.excess,
             Qlf |-> resp.out + (resp.excess \div dt)])

\* The accumulator of the cascade loop after stage i has answered with st.
nash_advance(acc, i, st) ==
    [res |-> [acc.res EXCEPT ![i] = st.res],
     Qlf |-> st.Qlf,
     nash |-> [acc.nash EXCEPT ![i] = get_storage_height_meters(st.res)],
     stage_order |-> Append(acc.stage_order, i),
     stage_in |-> Append(acc.stage_in, acc.Qlf),
     stage_out |-> Append(acc.stage_out, st.out),
     stage_excess |-> Append(acc.stage_excess, st.excess)]

\* The cascade loop: stages i..size in index order, from the accumulator acc.
RECURSIVE nash_cascade(_, _, _)
nash_cascade(acc, i, dt) ==
    IF i > Len(acc.res) THEN acc
    ELSE Bind(nash_stage(acc.res[i], acc.Qlf, dt),
              LAMBDA st :
                 Bind(nash_advance(acc, i, st),
                      LAMBDA next : nash_cascade(next, i + 1, dt)))

\* A surface-runoff flux that leaves out the groundwater reservoir's excess.
surface_runoff_flux_no_gw(surface_runoff, subsurface_excess, excess_gw_water, dt) ==
    surface_runoff + (subsurface_excess \div dt)

\* The surface-runoff flux run records.
surface_runoff_flux(surface_runoff, subsurface_excess, excess_gw_water, dt) ==
    surface_runoff + (subsurface_excess \div dt) + (excess_gw_water \div dt)

\* A mass check that does not count the ET loss as mass that left.
mass_check_no_et(prev, cur, fl, input_flux_meters, timestep_seconds, bound, garbage) ==
    LET n == Len(prev.nash_cascade_storeage_meters)
        cur_at(i) == IF i <= Len(cur.nash_cascade_storeage_meters)
                     THEN cur.nash_cascade_storeage_meters[i] ELSE garbage[i]
        previous_mass_meters ==
            prev.soil_storage_meters + prev.groundwater_storage_meters
            + SumSeq(prev.nash_cascade_storeage_meters)
            + input_flux_meters
        current_mass_meters ==
            cur.soil_storage_meters + cur.groundwater_storage_meters
            + SumSeq([i \in 1..n |-> cur_at(i)])
            + fl.surface_runoff_meters_per_second * timestep_seconds
            + fl.soil_lateral_flow_meters_per_second * timestep_seconds
            + fl.groundwater_flow_meters_per_second * timestep_seconds
    IN  [previous_mass_meters |-> previous_mass_meters,
         current_mass_meters |-> current_mass_meters,
         result |-> IF Abs(previous_mass_meters - current_mass_meters) > bound
                    THEN TSHIRT_MASS_BALANCE_ERROR ELSE TSHIRT_NO_ERROR]

\* mass_check(input_flux_meters, timestep_seconds).  The loop runs over the
\* size of previous_state's cascade vector and reads current_state's vector
\* at the same positions; a position past the end of current_state's vector
\* is an out-of-bounds read yielding garbage[i].
mass_check(prev, cur, fl, input_flux_meters, timestep_seconds, bound, garbage) ==
    LET n == Len(prev.nash_cascade_storeage_meters)
        cur_at(i) == IF i <= Len(cur.nash_cascade_storeage_meters)
                     THEN cur.nash_cascade_storeage_meters[i] ELSE garbage[i]
        previous_mass_meters ==
            prev.soil_storage_meters + prev.groundwater_storage_meters
            + SumSeq(prev.nash_cascade_storeage_meters)
            + input_flux_meters
        current_mass_meters ==
            cur.soil_storage_meters + cur.groundwater_storage_meters
            + SumSeq([i \in 1..n |-> cur_at(i)])
            + fl.et_loss_meters
            + fl.surface_runoff_meters_per_second * timestep_seconds
            + fl.soil_lateral_flow_meters_per_second * timestep_seconds
            + fl.groundwater_flow_meters_per_second * timestep_seconds
        abs_mass_diff_meters == Abs(previous_mass_meters - current_mass_meters)
    IN  [previous_mass_meters |-> previous_mass_meters,
         current_mass_meters |-> current_mass_meters,
         result |-> IF abs_mass_diff_meters > bound
                    THEN TSHIRT_MASS_BALANCE_ERROR ELSE TSHIRT_NO_ERROR]

\* The objects some shared_ptr still refers to.
Restrict(h, ids) == [id \in (DOMAIN h) \cap ids |-> h[id]]

\* A deficit taken from the ceiling alone, whatever the soil holds.
soil_moisture_deficit_of_empty_soil(p, prev) == p.max_soil_storage_meters

\* The soil column moisture deficit run hands to the Schaake partitioning:
\* max_soil_storage_meters - previous_state->soil_storage_meters.
soil_moisture_deficit(p, prev) ==
    p.max_soil_storage_meters - prev.soil_storage_meters

\* A run that writes its fluxes into the record it already has.
reuse_fluxes(old, n) == IF old = NULL THEN n + 1 ELSE old

\* make_shared<tshirt_fluxes>(...): the identity of a newly allocated flux
\* record, for the run after n earlier ones; `old` is the record replaced.
make_shared_fluxes(old, n) == n + 1

\* run(dt, input_flux_meters, et_params), with et the ET model's behaviour.
run(dt, input_flux_meters, et) ==
    /\ phase = "Ready"
    /\ runs < MaxRuns
    /\ UNCHANGED aux_vars
    /\ \E prev \in {heap[current_state]} :
       \E sch \in {Schaake_partitioning_scheme(dt, model_params.Cschaake,
                       soil_moisture_deficit(model_params, prev),
                       input_flux_meters)} :
       \E soil \in {response_meters_per_second(soil_reservoir, sch.infiltration, dt)} :
       \E Qlf \in {velocity_meters_per_second_for_outlet(soil.res, lf_outlet_index)} :
       \E Qperc \in {velocity_meters_per_second_for_outlet(soil.res, perc_outlet_index)} :
       \E new_soil_storage \in {get_storage_height_meters(soil.res)} :
       \E final_height \in {pdm03_wrapper(et, new_soil_storage)} :
       \E et_loss_meters \in {calc_evapotranspiration(new_soil_storage, final_height)} :
       \E casc \in {nash_cascade(
                       [res |-> soil_lf_nash_res, Qlf |-> Qlf,
                        nash |-> fresh_state(model_params).nash_cascade_storeage_meters,
                        stage_order |-> <<>>, stage_in |-> <<>>,
                        stage_out |-> <<>>, stage_excess |-> <<>>], 1, dt)} :
       \E gw \in {response_meters_per_second(groundwater_reservoir, Qperc, dt)} :
       \E cur \in {[fresh_state(model_params) EXCEPT
                       !.soil_storage_meters = new_soil_storage - et_loss_meters,
                       !.nash_cascade_storeage_meters = casc.nash,
                       !.groundwater_storage_meters = get_storage_height_meters(gw.res)]} :
       \E fl \in {tshirt_fluxes(
                     surface_runoff_flux(sch.surface_runoff, soil.excess, gw.excess, dt),
                     gw.out, Qperc, casc.Qlf, et_loss_meters)} :
       LET new_id == runs + 2
           n_prev == Len(prev.nash_cascade_storeage_meters)
           n_cur == Len(cur.nash_cascade_storeage_meters)
           oob == n_prev > n_cur
           live == {initial_state, current_state, new_id} \ {NULL}
       IN  \/ \E garbage \in [(n_cur + 1)..n_prev -> GarbageValues] :
              \E mc \in {mass_check(prev, cur, fl, input_flux_meters, dt,
                                    mass_check_error_bound, garbage)} :
                /\ previous_state' = current_state
                /\ current_state' = new_id
                /\ heap' = Restrict(heap @@ (new_id :> cur), live)
                /\ fluxes' = make_shared_fluxes(fluxes, runs)
                /\ flux_heap' = Restrict((make_shared_fluxes(fluxes, runs) :> fl)
                                             @@ flux_heap,
                                         {make_shared_fluxes(fluxes, runs), held_fluxes})
                /\ soil_reservoir' = soil.res
                /\ groundwater_reservoir' = gw.res
                /\ soil_lf_nash_res' = casc.res
                /\ runs' = runs + 1
                /\ step' = [dt |-> dt, input_flux_meters |-> input_flux_meters,
                            et |-> et,
                            surface_runoff |-> sch.surface_runoff,
                            subsurface_infiltration_flux |-> sch.infiltration,
                            subsurface_excess |-> soil.excess,
                            Qlf |-> Qlf, Qperc |-> Qperc,
                            soil_storage_before |-> soil_reservoir.storage,
                            new_soil_storage |-> new_soil_storage,
                            final_height_reservoir |-> final_height,
                            stage_order |-> casc.stage_order,
                            stage_in |-> casc.stage_in,
                            stage_out |-> casc.stage_out,
                            stage_excess |-> casc.stage_excess,
                            stage_storage |-> [i \in 1..Len(casc.res) |->
                                                  casc.res[i].storage],
                            excess_gw_water |-> gw.excess,
                            indexed |-> (1..Len(soil_lf_nash_res)) \cup (1..n_prev),
                            out_of_bounds |-> oob,
                            garbage |-> garbage,
                            old_current |-> current_state,
                            old_current_value |-> prev,
                            previous_mass_meters |-> mc.previous_mass_meters,
                            current_mass_meters |-> mc.current_mass_meters,
                            result |-> mc.result,
                            prior_result |-> step.result]
                /\ phase' = "Ready"
                /\ UNCHANGED <<model_params, soil_field_capacity_storage,
                               initial_state, mass_check_error_bound, ctor>>
           \/ \* the out-of-bounds read in mass_check faults
              /\ oob
              /\ phase' = "Crashed"
              /\ UNCHANGED <<model_params, soil_field_capacity_storage, heap,
                             flux_heap, initial_state, previous_state,
                             current_state, fluxes, mass_check_error_bound,
                             soil_reservoir, groundwater_reservoir,
                             soil_lf_nash_res, runs, ctor, step>>

Run ==
    \E dt \in TimeSteps, input_flux_meters \in InputFluxes, et \in EtBehaviours :
        run(dt, input_flux_meters, et)

Next == Construct \/ ConstructDefault \/ Run

Spec == Init /\ [][Next]_vars

\* Storages stay on the storage grid, so every division by dt in run is exact.
OnGrid ==
    phase = "Ready" =>
        /\ soil_reservoir.storage % Grid = 0
        /\ groundwater_reservoir.storage % Grid = 0
        /\ \A i \in 1..Len(soil_lf_nash_res) : soil_lf_nash_res[i].storage % Grid = 0
        /\ runs > 0 => /\ step.subsurface_excess % step.dt = 0
                       /\ step.excess_gw_water % step.dt = 0
                       /\ \A i \in 1..Len(step.stage_excess) :
                              step.stage_excess[i] % step.dt = 0

\* ------------------------------------------------- the mass-check error bound

\* A setter that stores its argument as given.
set_mass_check_error_bound_as_given(error_bound) == error_bound

\* set_mass_check_error_bound(error_bound): the value it stores,
\* error_bound >= 0 ? error_bound : abs(error_bound).
set_mass_check_error_bound(error_bound) ==
    IF error_bound >= 0 THEN error_bound ELSE Abs(error_bound)

\* get_mass_check_error_bound().
get_mass_check_error_bound == mass_check_error_bound

\* Arguments a caller may hand to set_mass_check_error_bound.
ErrorBounds == {0 - 3, 0, 5}

SetBound ==
    \E error_bound \in ErrorBounds :
        /\ phase = "Ready"
        /\ mass_check_error_bound' = set_mass_check_error_bound(error_bound)
        /\ last_set' = <<error_bound>>
        /\ UNCHANGED <<phase, model_params, soil_field_capacity_storage, heap,
                       flux_heap, initial_state, previous_state, current_state,
                       fluxes, soil_reservoir, groundwater_reservoir,
                       soil_lf_nash_res, runs, ctor, step,
                       held_fluxes, other, bmi, bmi_call>>

\* Runs with an ET model that removes nothing.
RunWithoutEt ==
    \E dt \in TimeSteps, input_flux_meters \in InputFluxes :
        run(dt, input_flux_meters, "none")

NextBound == ConstructDefault \/ RunWithoutEt \/ SetBound

\* A model built from its parameters, run, and given error bounds.
SpecBound == Init /\ [][NextBound]_vars

\* ------------------------------------- a second model on the same state object

\* Construction from a caller-supplied initial state of zero soil and
\* groundwater storage, the caller keeping its shared_ptr.
ConstructShared ==
    \E nash \in InitialNash :
        tshirt_model(tshirt_state(0, 0, nash), TRUE, FALSE)

\* tshirt_model(params, initial_state) for a second model, handed the
\* shared_ptr the first one was built from: its previous_state and
\* current_state refer to that object and check_valid works on it; the read
\* of a cascade entry the object lacks is out of bounds and may fault.  The
\* second model's reservoirs, and its runs, which write only to objects they
\* allocate themselves, are not part of the state.
ConstructOther ==
    \E p \in ParamSets :
        LET cv == check_valid(heap, initial_state, p)
            size == Len(cv.heap[initial_state].nash_cascade_storeage_meters)
        IN  /\ phase = "Ready"
            /\ initial_state /= NULL
            /\ ~other.constructed
            /\ \/ /\ heap' = cv.heap
                  /\ other' = [constructed |-> TRUE, nash_n |-> p.nash_n,
                               error_reported |-> cv.error_reported,
                               previous_state |-> initial_state,
                               current_state |-> initial_state]
                  /\ phase' = "Ready"
               \/ /\ size < p.nash_n
                  /\ phase' = "Crashed"
                  /\ UNCHANGED <<heap, other>>
            /\ UNCHANGED <<model_params, soil_field_capacity_storage,
                           flux_heap, initial_state, previous_state,
                           current_state, fluxes, mass_check_error_bound,
                           soil_reservoir, groundwater_reservoir,
                           soil_lf_nash_res, runs, ctor, step,
                           last_set, held_fluxes, bmi, bmi_call>>

\* Runs of one second with an ET model that removes nothing.
RunOneSecond ==
    \E input_flux_meters \in InputFluxes : run(1, input_flux_meters, "none")

NextTwo == ConstructShared \/ ConstructOther \/ RunOneSecond

\* Two models built from one initial-state object.
SpecTwo == Init /\ [][NextTwo]_vars

\* ------------------------------------------------ a caller keeping a flux record

\* get_fluxes(): the shared_ptr to the current flux record.
get_fluxes == fluxes

\* A caller calls get_fluxes() and keeps the shared_ptr it is given.
GetFluxes ==
    /\ phase = "Ready"
    /\ held_fluxes' = get_fluxes
    /\ UNCHANGED <<phase, model_params, soil_field_capacity_storage, heap,
                   flux_heap, initial_state, previous_state, current_state,
                   fluxes, mass_check_error_bound, soil_reservoir,
                   groundwater_reservoir, soil_lf_nash_res, runs, ctor, step,
                   last_set, other, bmi, bmi_call>>

NextFlux == ConstructDefault \/ RunWithoutEt \/ GetFluxes

\* A model built from its parameters, run, and asked for its flux record.
SpecFlux == Init /\ [][NextFlux]_vars

\* ---------------------------------------------------------- the BMI test model

\* Values the conversion of a non-finite double to int may yield.
INT_MIN == 0 - 2147483647 - 1
IntGarbage == {0, INT_MIN}

\* floor(a / b) for b other than 0.
FloorDiv(a, b) == IF b > 0 THEN a \div b ELSE (0 - a) \div (0 - b)

\* One pass of the loop of read_init_config, over the line key=value: the
\* field the key's branch assigns.
read_config_line(b, line) ==
    CASE line.key = "epoch_start_time" ->
             [b EXCEPT !.epoch_start_time = strtol(line.value)]
      [] line.key = "num_time_steps" ->
             [b EXCEPT !.num_time_steps = strtol(line.value)]
      [] line.key = "time_step_size" ->
             [b EXCEPT !.time_step_size = strtol(line.value)]
      [] line.key = "model_end_time" ->
             [b EXCEPT !.time_step_size = strtol(line.value)]

\* Initialize once read_init_config has returned: the fields it leaves and
\* the line of the assertion that failed (0 when none did).
Initialize_after_read(b, garbage) ==
    LET b1 == [b EXCEPT !.current_model_time = GetStartTime]
        b2 == IF b1.num_time_steps = 0 /\ b1.model_end_time = 0
              THEN [b1 EXCEPT !.num_time_steps = b1.DEFAULT_TIME_STEP_COUNT]
              ELSE b1
        b3 == IF b2.model_end_time = 0
              THEN [b2 EXCEPT !.model_end_time =
                        b2.current_model_time
                        + (b2.num_time_steps * b2.time_step_size)]
              ELSE b2
        b4 == IF b3.num_time_steps = 0
              THEN [b3 EXCEPT !.num_time_steps =
                        IF b3.time_step_size = 0 THEN garbage
                        ELSE FloorDiv(b3.model_end_time - b3.current_model_time,
                                      b3.time_step_size)]
              ELSE b3
    IN  IF ~(b2.model_end_time /= 0 \/ b2.num_time_steps /= 0)
        THEN [bmi |-> b2, failed_assert |-> 209]
        ELSE IF b2.model_end_time = 0 /\ ~(b2.num_time_steps /= 0)
        THEN [bmi |-> b2, failed_assert |-> 212]
        ELSE IF ~(b3.model_end_time /= 0)
        THEN [bmi |-> b3, failed_assert |-> 215]
        ELSE [bmi |-> b4, failed_assert |-> 0]

\* Initialize(file) up to the loop of read_init_config.
Initialize ==
    /\ bmi_call.pc = "idle"
    /\ bmi_call' = [bmi_call EXCEPT !.pc = "reading", !.i = 1,
                                    !.is_epoch_start_time_set = FALSE]
    /\ UNCHANGED <<bmi, tshirt_vars>>

\* read_init_config: one pass of its loop.
read_init_config ==
    /\ bmi_call.pc = "reading"
    /\ bmi_call.i <= Len(bmi_call.file)
    /\ bmi' = read_config_line(bmi, bmi_call.file[bmi_call.i])
    /\ bmi_call' = [bmi_call EXCEPT
                        !.i = @ + 1,
                        !.is_epoch_start_time_set =
                            @ \/ bmi_call.file[bmi_call.i].key = "epoch_start_time"]
    /\ UNCHANGED tshirt_vars

\* The end of read_init_config, which throws when epoch_start_time was not
\* set, and the rest of Initialize, where a failed assertion aborts.
Initialize_finish ==
    /\ bmi_call.pc = "reading"
    /\ bmi_call.i > Len(bmi_call.file)
    /\ IF ~bmi_call.is_epoch_start_time_set
       THEN /\ bmi_call' = [bmi_call EXCEPT !.pc = "thrown"]
            /\ UNCHANGED bmi
       ELSE \E garbage \in IntGarbage :
            \E done \in {Initialize_after_read(bmi, garbage)} :
                /\ bmi' = done.bmi
                /\ bmi_call' = [bmi_call EXCEPT
                                    !.pc = IF done.failed_assert = 0
                                           THEN "returned" ELSE "aborted",
                                    !.failed_assert = done.failed_assert]
    /\ UNCHANGED tshirt_vars

\* A TestBmiCpp object and a configuration file, Initialize not yet called.
InitBmi ==
    /\ AuxInit
    /\ ModelInit
    /\ model_params = tshirt_params(0)
    /\ bmi \in {TestBmiCpp(size, count) : size \in HeaderTimeStepSizes,
                                         count \in HeaderDefaultTimeStepCounts}
    /\ bmi_call \in {NoCall(file) : file \in ConfigFiles}

NextBmi == Initialize \/ read_init_config \/ Initialize_finish

SpecBmi == InitBmi /\ [][NextBmi]_vars

\* ============================================================== the claims

\* The state objects and the flux record the model refers to after a run.
Prev == heap[previous_state]
Cur == heap[current_state]
Flux == flux_heap[fluxes]
AfterRun == phase = "Ready" /\ runs > 0

\* The three outgoing rate fluxes of the last run, over its timestep.
Outgoing ==
    (Flux.surface_runoff_meters_per_second
     + Flux.soil_lateral_flow_meters_per_second
     + Flux.groundwater_flow_meters_per_second) * step.dt

\* C1 (as claimed): mass conservation.  After a run of a model with
\* nash_n = 0 in which ET removed nothing and input_flux >= 0, previous soil
\* + groundwater storage + input_flux equals current soil + groundwater
\* storage + the outgoing fluxes * dt within the error bound, and run
\* returned TSHIRT_NO_ERROR.
C1_MassConservation ==
    (AfterRun /\ model_params.nash_n = 0 /\ Flux.et_loss_meters = 0
              /\ step.input_flux_meters >= 0)
    => /\ Abs((Prev.soil_storage_meters + Prev.groundwater_storage_meters
               + step.input_flux_meters)
              - (Cur.soil_storage_meters + Cur.groundwater_storage_meters
                 + Outgoing)) <= mass_check_error_bound
       /\ step.result = TSHIRT_NO_ERROR

\* C2 (as claimed): mass_check returns TSHIRT_MASS_BALANCE_ERROR exactly when
\* |before - after| exceeds the error bound, before being previous soil +
\* groundwater + all previous cascade storages + input_flux and after being
\* current soil + groundwater + all current cascade storages + et_loss + the
\* three outgoing fluxes * dt.
C2_MassCheckFormula ==
    AfterRun =>
        LET before == Prev.soil_storage_meters + Prev.groundwater_storage_meters
                      + SumSeq(Prev.nash_cascade_storeage_meters)
                      + step.input_flux_meters
            after == Cur.soil_storage_meters + Cur.groundwater_storage_meters
                     + SumSeq(Cur.nash_cascade_storeage_meters)
                     + Flux.et_loss_meters + Outgoing
        IN  (step.result = TSHIRT_MASS_BALANCE_ERROR)
                <=> (Abs(before - after) > mass_check_error_bound)

\* C3 (as claimed): ET coupling.  After a run, et_loss_meters is the soil
\* storage before ET minus the height the ET model returned, and
\* current_state's soil storage is the height the ET model returned.
C3_EtCoupling ==
    AfterRun =>
        /\ Flux.et_loss_meters = step.new_soil_storage - step.final_height_reservoir
        /\ Cur.soil_storage_meters = step.final_height_reservoir

\* The mass check of the last run had the ET model removed nothing: the soil
\* storage left at its post-routing value and no ET loss recorded.
ResultWithoutEt ==
    mass_check(Prev,
               [Cur EXCEPT !.soil_storage_meters = step.new_soil_storage],
               [Flux EXCEPT !.et_loss_meters = 0],
               step.input_flux_meters, step.dt, mass_check_error_bound,
               step.garbage).result

\* The ET model returned a height above the one it was given, by more than
\* the error bound.
AnomalousEt ==
    /\ AfterRun
    /\ step.final_height_reservoir - step.new_soil_storage > mass_check_error_bound

C5_MismatchIsFatal ==
    /\ (phase = "Ready" => ~ctor.error_reported)
    /\ (AfterRun => Len(Prev.nash_cascade_storeage_meters) = model_params.nash_n)

\* C6: construction from an empty cascade vector with nash_n > 0 reports no
\* error and does not fault; it leaves previous_state and current_state with
\* nash_n cascade entries, all 0, and nash_n cascade reservoirs each at
\* storage 0.  The parameters-only constructor, by the same path, also leaves
\* soil and groundwater storage 0, in the state and in the reservoirs.
C6_EmptyCascadeFilled ==
    (ctor.given_nash = <<>> /\ phase /= "Unconstructed")
    => /\ phase /= "Crashed"
       /\ ~ctor.error_reported
       /\ runs = 0 =>
            /\ Prev.nash_cascade_storeage_meters = Fill(model_params.nash_n, 0)
            /\ Cur.nash_cascade_storeage_meters = Fill(model_params.nash_n, 0)
            /\ Len(soil_lf_nash_res) = model_params.nash_n
            /\ \A i \in 1..model_params.nash_n : soil_lf_nash_res[i].storage = 0
            /\ ctor.default_ctor =>
                 /\ Cur.soil_storage_meters = 0
                 /\ Cur.groundwater_storage_meters = 0
                 /\ soil_reservoir.storage = 0
                 /\ groundwater_reservoir.storage = 0

\* C6 witness: a model just built by the parameters-only constructor with a
\* cascade of at least two reservoirs.
C6_Witness ==
    /\ phase = "Ready" /\ runs = 0
    /\ ctor.default_ctor /\ ctor.given_nash = <<>>
    /\ model_params.nash_n >= 2
    /\ Len(Cur.nash_cascade_storeage_meters) = model_params.nash_n

\* C7: state roll.  Every run makes previous_state the object current_state
\* referred to, with its value unchanged, and current_state a newly
\* allocated object, distinct from previous_state, whose cascade vector has
\* exactly nash_n entries.
C7_StateRoll ==
    [][runs' = runs + 1 =>
          /\ previous_state' = current_state
          /\ heap'[previous_state'] = heap[current_state]
          /\ current_state' \notin DOMAIN heap
          /\ current_state' /= previous_state'
          /\ current_state' /= NULL
          /\ Len(heap'[current_state'].nash_cascade_storeage_meters)
                 = model_params.nash_n]_vars

\* C7 witness: a second run has rolled the state of a model with a cascade,
\* and the rolled state differs from the new one.
C7_Witness ==
    /\ AfterRun /\ runs >= 2
    /\ model_params.nash_n > 0
    /\ previous_state = step.old_current
    /\ Prev /= Cur

\* C8 (as claimed): cascade identity.  With nash_n = 0 the recorded lateral
\* flow is the discharge of the soil reservoir's lateral-flow outlet, and
\* neither construction nor run indexes a cascade reservoir or a cascade
\* storage entry.
C8_CascadeIdentity ==
    model_params.nash_n = 0 =>
        /\ ctor.indexed = {}
        /\ AfterRun =>
             /\ Flux.soil_lateral_flow_meters_per_second
                    = velocity_meters_per_second_for_outlet(soil_reservoir,
                                                            lf_outlet_index)
             /\ step.indexed = {}

\* C9: cascade chaining.  In a run with nash_n > 0 the stages answer once
\* each in index order; stage 1 receives the soil reservoir's lateral-flow
\* discharge, stage i + 1 receives stage i's discharge plus its excess / dt;
\* current_state's cascade entry i is stage i's storage after its response;
\* the recorded lateral flow is the last stage's discharge plus its
\* excess / dt.
C9_CascadeChaining ==
    [][(runs' = runs + 1 /\ model_params.nash_n > 0) =>
          LET n == model_params.nash_n
              dt == step'.dt
              R(i) == response_meters_per_second(soil_lf_nash_res[i],
                                                 step'.stage_in[i], dt)
          IN  /\ Len(soil_lf_nash_res) = n
              /\ step'.stage_order = [i \in 1..n |-> i]
              /\ step'.stage_in[1]
                     = velocity_meters_per_second_for_outlet(soil_reservoir',
                                                             lf_outlet_index)
              /\ \A i \in 1..n :
                    /\ soil_lf_nash_res'[i] = R(i).res
                    /\ heap'[current_state'].nash_cascade_storeage_meters[i]
                           = R(i).res.storage
                    /\ i < n => step'.stage_in[i + 1]
                                    = R(i).out + (R(i).excess \div dt)
              /\ flux_heap'[fluxes'].soil_lateral_flow_meters_per_second
                     = R(n).out + (R(n).excess \div dt)]_vars

\* C9 witness: a run of a cascade of at least two reservoirs in which the
\* first stage overflowed and passed its excess on.
C9_Witness ==
    /\ AfterRun
    /\ model_params.nash_n >= 2
    /\ step.stage_excess[1] > 0
    /\ step.stage_in[2] > step.stage_out[1]

\* C10: overflow is redirected.  The surface-runoff flux a run records is the
\* Schaake surface runoff plus the soil reservoir's excess / dt plus the
\* groundwater reservoir's excess / dt, the excesses being those of this
\* run's responses.
C10_OverflowRedirected ==
    [][runs' = runs + 1 =>
          LET dt == step'.dt
              sch == Schaake_partitioning_scheme(dt, model_params.Cschaake,
                         model_params.max_soil_storage_meters
                             - heap[current_state].soil_storage_meters,
                         step'.input_flux_meters)
              soil == response_meters_per_second(soil_reservoir,
                                                 sch.infiltration, dt)
              gw == response_meters_per_second(groundwater_reservoir,
                        soil.res.velocity[perc_outlet_index], dt)
          IN  flux_heap'[fluxes'].surface_runoff_meters_per_second * dt
                  = sch.surface_runoff * dt + soil.excess + gw.excess]_vars

\* C10 witness: a run with Schaake surface runoff in which the groundwater
\* reservoir overflowed.
C10_Witness ==
    /\ AfterRun
    /\ step.surface_runoff > 0
    /\ step.excess_gw_water > 0

\* C10 witness of the soil reservoir overflowing.
C10_SoilOverflow ==
    /\ AfterRun
    /\ step.subsurface_excess > 0

\* C11: a mass-balance error is not fatal.  Every run, whichever code its
\* mass check answers, ends with the model ready, with previous_state the
\* state object that was current (whatever the run before answered) and with
\* current_state and the flux record holding the values computed in the
\* run; and after a run that answered TSHIRT_MASS_BALANCE_ERROR a further run
\* can be made.
C11_ErrorNonFatal ==
    /\ [][runs' = runs + 1 =>
            LET dt == step'.dt
                n == Len(step'.stage_out)
                gw == response_meters_per_second(groundwater_reservoir,
                                                 step'.Qperc, dt)
                et_loss == step'.final_height_reservoir - step'.new_soil_storage
            IN  /\ phase' = "Ready"
                /\ step'.result \in {TSHIRT_NO_ERROR, TSHIRT_MASS_BALANCE_ERROR}
                /\ previous_state' = current_state
                /\ heap'[previous_state'] = heap[current_state]
                /\ heap'[current_state'].soil_storage_meters
                       = step'.new_soil_storage - et_loss
                /\ heap'[current_state'].groundwater_storage_meters
                       = gw.res.storage
                /\ heap'[current_state'].nash_cascade_storeage_meters
                       = step'.stage_storage
                /\ flux_heap'[fluxes'] =
                       [surface_runoff_meters_per_second |->
                            step'.surface_runoff
                            + (step'.subsurface_excess \div dt)
                            + (gw.excess \div dt),
                        groundwater_flow_meters_per_second |-> gw.out,
                        soil_percolation_flow_meters_per_second |-> step'.Qperc,
                        soil_lateral_flow_meters_per_second |->
                            IF n = 0 THEN step'.Qlf
                            ELSE step'.stage_out[n]
                                 + (step'.stage_excess[n] \div dt),
                        et_loss_meters |-> et_loss]]_vars
    /\ []((AfterRun /\ runs < MaxRuns
            /\ step.result = TSHIRT_MASS_BALANCE_ERROR) => ENABLED Run)

\* C11 witness: a run that answered TSHIRT_MASS_BALANCE_ERROR was followed by
\* a run that answered TSHIRT_NO_ERROR.
C11_Witness ==
    /\ AfterRun
    /\ runs >= 2
    /\ step.prior_result = TSHIRT_MASS_BALANCE_ERROR
    /\ step.result = TSHIRT_NO_ERROR

\* C12: storage clamping.  After every run each storage recorded in
\* current_state lies within its bounds: soil within 0 and
\* max_soil_storage_meters, groundwater within 0 and
\* max_groundwater_storage_meters, cascade entry i within 0 and the ceiling
\* of cascade reservoir i.
C12_StorageClamped ==
    AfterRun =>
        /\ Cur.soil_storage_meters >= 0
        /\ Cur.soil_storage_meters <= model_params.max_soil_storage_meters
        /\ Cur.groundwater_storage_meters >= 0
        /\ Cur.groundwater_storage_meters
               <= model_params.max_groundwater_storage_meters
        /\ \A i \in 1..Len(Cur.nash_cascade_storeage_meters) :
               /\ Cur.nash_cascade_storeage_meters[i] >= 0
               /\ Cur.nash_cascade_storeage_meters[i]
                      <= soil_lf_nash_res[i].maximum_storage

\* C13: the Schaake boundary inside run.  The deficit run hands to the
\* partitioning is max_soil_storage_meters less previous_state's soil storage.
\* When it is <= 0 and the input X is >= 0, infiltration is 0, the Schaake
\* surface runoff is X and the soil reservoir answers an inflow of 0; when
\* the input is <= 0, infiltration and Schaake surface runoff are both 0.
C13_SchaakeBoundary ==
    [][runs' = runs + 1 =>
          LET deficit == model_params.max_soil_storage_meters
                             - heap'[previous_state'].soil_storage_meters
              X == step'.input_flux_meters
          IN  /\ (deficit <= 0 /\ X >= 0) =>
                     /\ step'.subsurface_infiltration_flux = 0
                     /\ step'.surface_runoff = X
                     /\ soil_reservoir'
                            = response_meters_per_second(soil_reservoir, 0,
                                                         step'.dt).res
              /\ X <= 0 =>
                     /\ step'.subsurface_infiltration_flux = 0
                     /\ step'.surface_runoff = 0]_vars

\* C13 witness: a run on a full soil column (deficit <= 0) with a positive
\* input, all of which became Schaake surface runoff.
C13_Witness ==
    /\ AfterRun
    /\ model_params.max_soil_storage_meters - Prev.soil_storage_meters <= 0
    /\ step.input_flux_meters > 0
    /\ step.surface_runoff = step.input_flux_meters

\* C13 witness of the deficit below zero.
C13_NegativeDeficit ==
    /\ AfterRun
    /\ model_params.max_soil_storage_meters - Prev.soil_storage_meters < 0
    /\ step.input_flux_meters > 0

\* The end-to-end scenario at the scale of this model: a cascade of two
\* reservoirs, a zero initial state, a timestep longer than one second, an
\* input below the soil capacity, and an ET model removing nothing.
ScenarioFirstRun ==
    /\ AfterRun
    /\ runs = 1
    /\ model_params.nash_n = 2
    /\ step.old_current_value = tshirt_state(0, 0, <<0, 0>>)
    /\ step.dt > 1
    /\ step.input_flux_meters > 0
    /\ step.input_flux_meters < model_params.max_soil_storage_meters
    /\ step.et = "none"

\* C14: the end-to-end scenario.  The first run of the scenario answers
\* TSHIRT_NO_ERROR, leaves current_state's soil storage above 0 and at most
\* its ceiling, and records no negative flux component.
C14_ScenarioRunOk ==
    ScenarioFirstRun =>
        /\ step.result = TSHIRT_NO_ERROR
        /\ Cur.soil_storage_meters > 0
        /\ Cur.soil_storage_meters <= model_params.max_soil_storage_meters
        /\ Flux.surface_runoff_meters_per_second >= 0
        /\ Flux.groundwater_flow_meters_per_second >= 0
        /\ Flux.soil_percolation_flow_meters_per_second >= 0
        /\ Flux.soil_lateral_flow_meters_per_second >= 0
        /\ Flux.et_loss_meters >= 0

\* C15: the mass-check error bound.  In a constructed model
\* get_mass_check_error_bound() is never negative; it is the default 1e-6
\* until the first set_mass_check_error_bound(x) and |x| of the latest one
\* afterwards; no run changes it.
C15_ErrorBound ==
    /\ [](phase = "Ready" =>
             /\ get_mass_check_error_bound >= 0
             /\ get_mass_check_error_bound
                    = IF last_set = <<>> THEN DefaultErrorBound
                      ELSE Abs(last_set[1]))
    /\ [][runs' /= runs =>
              mass_check_error_bound' = mass_check_error_bound]_vars

\* C15 witness: after set_mass_check_error_bound of a negative value, a run
\* whose mass difference lies between the default bound and the bound set
\* answered TSHIRT_NO_ERROR.
C15_Witness ==
    /\ AfterRun
    /\ last_set /= <<>>
    /\ last_set[1] < 0
    /\ get_mass_check_error_bound = 0 - last_set[1]
    /\ Abs(step.previous_mass_meters - step.current_mass_meters) > DefaultErrorBound
    /\ step.result = TSHIRT_NO_ERROR

\* C16: instance independence.  No call on a second model, built from the
\* same initial-state object, changes the state objects the first model's
\* previous_state and current_state refer to.
C16_InstancesIndependent ==
    [][other' /= other =>
          /\ heap'[previous_state] = heap[previous_state]
          /\ heap'[current_state] = heap[current_state]]_vars

\* C17: state and reservoirs agree across timesteps.  At the start of every
\* run the soil reservoir's storage is the soil storage of the state about
\* to become previous_state, the groundwater reservoir's storage is its
\* groundwater storage, and cascade reservoir i's storage is its cascade
\* entry i.
C17_ReservoirsAgree ==
    [][runs' = runs + 1 =>
          LET prev == heap[current_state]
          IN  /\ soil_reservoir.storage = prev.soil_storage_meters
              /\ groundwater_reservoir.storage = prev.groundwater_storage_meters
              /\ Len(soil_lf_nash_res) = Len(prev.nash_cascade_storeage_meters)
              /\ \A i \in 1..Len(soil_lf_nash_res) :
                     soil_lf_nash_res[i].storage
                         = prev.nash_cascade_storeage_meters[i]]_vars

\* C17 restricted to a validly sized initial state, to runs after a run
\* whose ET loss was not zero, and to the soil storage.
C17_SoilAgreesAfterEt ==
    [][(runs' = runs + 1 /\ runs > 0 /\ ~ctor.error_reported
        /\ flux_heap[fluxes].et_loss_meters /= 0) =>
          soil_reservoir.storage = heap[current_state].soil_storage_meters]_vars

\* C18: flux record freshness.  From construction until the first run
\* get_fluxes() is null; every run installs a flux record that did not exist
\* before, and leaves a record a caller obtained earlier as it was.
C18_FluxRecordFresh ==
    /\ []((phase = "Ready" /\ runs = 0) => get_fluxes = NULL)
    /\ [][runs' = runs + 1 =>
              /\ fluxes' /= NULL
              /\ fluxes' /= fluxes
              /\ fluxes' \notin DOMAIN flux_heap
              /\ held_fluxes /= NULL =>
                     /\ held_fluxes \in DOMAIN flux_heap'
                     /\ flux_heap'[held_fluxes] = flux_heap[held_fluxes]]_vars

\* C18 witness: a caller holds the record of the first run after a second
\* run has installed a record with other values.
C18_Witness ==
    /\ AfterRun
    /\ runs >= 2
    /\ held_fluxes /= NULL
    /\ held_fluxes /= fluxes
    /\ flux_heap[held_fluxes] /= flux_heap[fluxes]

\* The configuration file holds an epoch_start_time line.
HasEpochStartTime ==
    \E k \in 1..Len(bmi_call.file) : bmi_call.file[k].key = "epoch_start_time"

\* C19: the assertions of TestBmiCpp::Initialize are valid.  For a
\* configuration file with an epoch_start_time line no assertion of
\* Initialize fails, and Initialize returns with num_time_steps and
\* model_end_time other than 0.
C19_InitializeAssertionsHold ==
    HasEpochStartTime =>
        /\ bmi_call.pc /= "aborted"
        /\ bmi_call.pc = "returned" =>
               /\ bmi.num_time_steps /= 0
               /\ bmi.model_end_time /= 0

\* C20: the configuration keys are independent.  Reading the line key=value
\* sets the field named key to the value and leaves every other field as it
\* was.
C20_KeysIndependent ==
    [][(bmi_call.pc = "reading" /\ bmi_call'.i = bmi_call.i + 1) =>
          LET line == bmi_call.file[bmi_call.i]
          IN  bmi' = [bmi EXCEPT ![line.key] = strtol(line.value)]]_vars

\* C20, the order of the lines: once a file whose lines have different keys
\* has been read, every field named in it holds the value of its line.
C20_OrderIndependent ==
    (/\ bmi_call.pc = "reading"
     /\ bmi_call.i > Len(bmi_call.file)
     /\ \A j, k \in 1..Len(bmi_call.file) :
            j /= k => bmi_call.file[j].key /= bmi_call.file[k].key) =>
        \A k \in 1..Len(bmi_call.file) :
            bmi[bmi_call.file[k].key] = strtol(bmi_call.file[k].value)

====
